---------------------------- MODULE Spec2Model ----------------------------
(***************************************************************************)
(* Model of tools/python/ezdxf_normalize.py: the traversal of a DXF        *)
(* document's modelspace (main), the per-entity dispatch with block        *)
(* expansion (process_entity) and the curve samplers (sample_arc,          *)
(* sample_circle, spline_to_poly, transform_point).                        *)
(*                                                                         *)
(* Numbers.  Python floats are modelled as fixed-point integers: a length  *)
(* or a scale factor v stands for v / One.  Angles are whole degrees.      *)
(* cos and sin are read from a table of sin(0..90 degrees) * One.          *)
(***************************************************************************)
EXTENDS Integers, Sequences, FiniteSets, TLC

VARIABLES
    doc,            \* the document: [ms |-> modelspace entities, blocks |-> block table]
    approx_segs,    \* args.approx_segs
    explode_blocks, \* args.explode_inserts
    verbose,        \* args.verbose
    out,            \* the list `out` of main()
    err,            \* the lines printed to sys.stderr, in order
    stack,          \* active iterations: main's loop, then one per INSERT under expansion
    pc,             \* "run" while main's loop runs, "done" after the JSON is written
    fn,             \* direct sampler call: which sampler is called
    args,           \* direct sampler call: its arguments
    ret             \* direct sampler call: <<>> before the call, then its outcome

vars == <<doc, approx_segs, explode_blocks, verbose, out, err, stack, pc, fn, args, ret>>

travVars == <<doc, approx_segs, explode_blocks, verbose, out, err, stack, pc>>
harnessVars == <<fn, args, ret>>

---------------------------------------------------------------------------
(* Bounds of the model *)

MaxSegs == 2        \* approx_segs ranges over 0..MaxSegs
MaxLen == 2         \* entities per generated container
MaxDepth == 4       \* nested iterations the model follows (main's loop included)
MaxTurns == 2       \* direct sampler calls: angles range over 0..MaxTurns*360 degrees
MaxSampleSegs == 3  \* direct sampler calls: segments ranges over 0..MaxSampleSegs

---------------------------------------------------------------------------
(* Fixed-point arithmetic and trigonometry *)

SinTab ==
    << 0, 17, 35, 52, 70, 87, 105, 122, 139, 156, 174, 191, 208, 225, 242,
       259, 276, 292, 309, 326, 342, 358, 375, 391, 407, 423, 438, 454, 469,
       485, 500, 515, 530, 545, 559, 574, 588, 602, 616, 629, 643, 656, 669,
       682, 695, 707, 719, 731, 743, 755, 766, 777, 788, 799, 809, 819, 829,
       839, 848, 857, 866, 875, 883, 891, 899, 906, 914, 921, 927, 934, 940,
       946, 951, 956, 961, 966, 970, 974, 978, 982, 985, 988, 990, 993, 995,
       996, 998, 999, 999, 1000, 1000 >>

\* 1.0 in fixed point
One == SinTab[91]

\* a * b on floats
Mul(a, b) == (a * b) \div One

\* math.sin(math.radians(d))
Sin(d) ==
    LET a == d % 360
    IN  IF a <= 90 THEN SinTab[a + 1]
        ELSE IF a <= 180 THEN SinTab[180 - a + 1]
        ELSE IF a <= 270 THEN -SinTab[a - 180 + 1]
        ELSE -SinTab[360 - a + 1]

\* math.cos(math.radians(d))
Cos(d) == Sin(d + 90)

\* the largest h in lo..hi with h * h <= s, by bisection (lo * lo <= s < (hi + 1)^2)
RECURSIVE Root(_, _, _)
Root(s, lo, hi) ==
    IF lo = hi THEN lo
    ELSE CHOOSE h \in {IF mid * mid <= s THEN Root(s, mid, hi) ELSE Root(s, lo, mid - 1) :
                          mid \in {(lo + hi + 1) \div 2}} : TRUE

\* math.hypot(a, b)
Hypot(a, b) == Root(a * a + b * b, 0, (IF a < 0 THEN -a ELSE a) + (IF b < 0 THEN -b ELSE b))

---------------------------------------------------------------------------
(* rot_point, transform_point *)

rot_point(x, y, ang_deg) ==
    LET ca == Cos(ang_deg)
        sa == Sin(ang_deg)
    IN  <<Mul(x, ca) - Mul(y, sa), Mul(x, sa) + Mul(y, ca)>>

transform_point(pt, insert, sx, sy, rotation) ==
    LET x == Mul(pt[1], sx)
        y == Mul(pt[2], sy)
        r == rot_point(x, y, rotation)
    IN  <<r[1] + insert[1], r[2] + insert[2]>>

\* transform_point(p, *parent_transform)
ApplyTransform(p, parent_transform) ==
    transform_point(p, parent_transform[1], parent_transform[2],
                    parent_transform[3], parent_transform[4])

\* parent_transform=None
None == <<>>

---------------------------------------------------------------------------
(* sample_arc, sample_circle *)

\* Variant of ArcAngle: the end angle is used as given, without the wraparound
ArcAngleNoWrap(start_deg, end_deg, i, segments) ==
    start_deg + ((end_deg - start_deg) * i) \div segments

\* the angle t of point i of sample_arc, in degrees
ArcAngle(start_deg, end_deg, i, segments) ==
    LET end == IF end_deg < start_deg THEN end_deg + 360 ELSE end_deg
    IN  start_deg + ((end - start_deg) * i) \div segments

\* i / segments with segments = 0, reached for i = 0 since range(1) is not empty
sample_arc_raises(segments) == segments = 0

sample_arc(cx, cy, r, start_deg, end_deg, segments) ==
    [i \in 1..(segments + 1) |->
        LET t == ArcAngle(start_deg, end_deg, i - 1, segments)
        IN  <<cx + Mul(r, Cos(t)), cy + Mul(r, Sin(t))>>]

\* Variant of sample_circle: the closing point is not appended
sample_circle_open(cx, cy, r, segments) ==
    [i \in 1..segments |->
        LET t == (360 * (i - 1)) \div segments
        IN  <<cx + Mul(r, Cos(t)), cy + Mul(r, Sin(t))>>]

sample_circle(cx, cy, r, segments) ==
    LET pts == [i \in 1..segments |->
                    LET t == (360 * (i - 1)) \div segments
                    IN  <<cx + Mul(r, Cos(t)), cy + Mul(r, Sin(t))>>]
    IN  IF Len(pts) > 0 THEN Append(pts, pts[1]) ELSE pts


\* spline_to_poly: [pts |-> the points returned, err |-> the lines it printed]
spline_to_poly(spline, segments) ==
    IF spline.fit_points # <<>>
    THEN [pts |-> spline.fit_points, err |-> <<>>]
    ELSE LET control == spline.control_points
         IN  IF control = <<>>
             THEN [pts |-> <<>>, err |-> <<>>]
             ELSE IF segments = 0
             THEN \* i / segments raises ZeroDivisionError, caught at line 82
                  [pts |-> <<>>, err |-> << <<"Warning", "spline_to_poly failed">> >>]
             ELSE [pts |-> [i \in 1..(segments + 1) |->
                              control[((i - 1) * (Len(control) - 1)) \div segments + 1]],
                   err |-> <<>>]

---------------------------------------------------------------------------
(* The branches of process_entity.  Each gives what the branch appends to  *)
(* `out` and what it prints to stderr: [out |-> records, err |-> lines].   *)
(* A coordinate field holding fewer than two numbers stands for a missing  *)
(* or malformed attribute: reading it raises inside the branch's try.      *)

Polyline(pts) == [type |-> "polyline", points |-> pts]

Warning(text) == [out |-> <<>>, err |-> << <<"Warning", text>> >>]

Records(recs) == [out |-> recs, err |-> <<>>]

\* "if parent_transform:" then transform every point
Placed(pts, parent_transform) ==
    IF parent_transform # None
    THEN [i \in 1..Len(pts) |-> ApplyTransform(pts[i], parent_transform)]
    ELSE pts

Malformed(p) == Len(p) < 2

\* Variant of LineBranch: the start point is appended before the end point is read
LineBranchPartial(e, parent_transform) ==
    IF Malformed(e.start)
    THEN Warning("LINE processing error")
    ELSE IF Malformed(e.end)
    THEN [out |-> << Polyline(Placed(<< <<e.start[1], e.start[2]>> >>, parent_transform)) >>,
          err |-> << <<"Warning", "LINE processing error">> >>]
    ELSE Records(<< Polyline(Placed(<< <<e.start[1], e.start[2]>>,
                                       <<e.end[1], e.end[2]>> >>, parent_transform)) >>)

LineBranch(e, parent_transform) ==
    IF Malformed(e.start) \/ Malformed(e.end)
    THEN Warning("LINE processing error")
    ELSE Records(<< Polyline(Placed(<< <<e.start[1], e.start[2]>>,
                                       <<e.end[1], e.end[2]>> >>, parent_transform)) >>)

LwPolylineBranch(e, parent_transform) ==
    IF \E i \in 1..Len(e.points) : Malformed(e.points[i])
    THEN Warning("LWPOLYLINE error")
    ELSE LET pts == [i \in 1..Len(e.points) |-> <<e.points[i][1], e.points[i][2]>>]
         IN  Records(<< Polyline(Placed(pts, parent_transform)) >>)

PolylineBranch(e, parent_transform) ==
    IF \E i \in 1..Len(e.vertices) : Malformed(e.vertices[i])
    THEN Warning("POLYLINE error")
    ELSE LET pts == [i \in 1..Len(e.vertices) |-> <<e.vertices[i][1], e.vertices[i][2]>>]
             placed == Placed(pts, parent_transform)
         IN  IF placed # <<>> THEN Records(<< Polyline(placed) >>) ELSE Records(<<>>)

\* Variant of CircleBranch: the circle record carries the placed centre
CircleBranchPlacedCentre(e, parent_transform, segs) ==
    IF Malformed(e.center)
    THEN Warning("CIRCLE error")
    ELSE LET c == IF parent_transform # None
                  THEN ApplyTransform(e.center, parent_transform)
                  ELSE e.center
             pts == sample_circle(e.center[1], e.center[2], e.radius, segs)
         IN  Records(<< Polyline(Placed(pts, parent_transform)),
                        [type |-> "circle", cx |-> c[1], cy |-> c[2], r |-> e.radius] >>)

CircleBranch(e, parent_transform, segs) ==
    IF Malformed(e.center)
    THEN Warning("CIRCLE error")
    ELSE LET cx == e.center[1]
             cy == e.center[2]
             r == e.radius
             poly == IF parent_transform # None
                     THEN LET pts == sample_circle(0, 0, r, segs)
                          IN  [i \in 1..Len(pts) |->
                                  ApplyTransform(<<pts[i][1] + cx, pts[i][2] + cy>>,
                                                 parent_transform)]
                     ELSE sample_circle(cx, cy, r, segs)
         IN  Records(<< Polyline(poly),
                        [type |-> "circle", cx |-> cx, cy |-> cy, r |-> r] >>)

ArcBranch(e, parent_transform, segs) ==
    IF Malformed(e.center) \/ sample_arc_raises(segs)
    THEN Warning("ARC error")
    ELSE LET cx == e.center[1]
             cy == e.center[2]
             r == e.radius
             sa == e.start_angle
             ea == e.end_angle
             poly == IF parent_transform # None
                     THEN LET pts == sample_arc(0, 0, r, sa, ea, segs)
                          IN  [i \in 1..Len(pts) |->
                                  ApplyTransform(<<pts[i][1] + cx, pts[i][2] + cy>>,
                                                 parent_transform)]
                     ELSE sample_arc(cx, cy, r, sa, ea, segs)
         IN  Records(<< Polyline(poly),
                        [type |-> "arc", cx |-> cx, cy |-> cy, r |-> r,
                         start |-> sa, end |-> ea] >>)

EllipseBranch(e, parent_transform, segs) ==
    IF Malformed(e.center) \/ Malformed(e.major_axis)
    THEN Warning("ELLIPSE error")
    ELSE LET cx == e.center[1]
             cy == e.center[2]
             rx == Hypot(e.major_axis[1], e.major_axis[2])
             ry == Mul(rx, e.ratio)
             pts == [i \in 1..segs |->
                        LET a == (360 * (i - 1)) \div segs
                        IN  <<cx + Mul(rx, Cos(a)), cy + Mul(ry, Sin(a))>>]
         IN  Records(<< Polyline(Placed(pts, parent_transform)) >>)

SplineBranch(e, parent_transform, segs) ==
    LET sp == spline_to_poly(e, segs)
    IN  IF parent_transform # None /\ \E i \in 1..Len(sp.pts) : Malformed(sp.pts[i])
        THEN [out |-> <<>>, err |-> sp.err \o << <<"Warning", "SPLINE error">> >>]
        ELSE LET pts == Placed(sp.pts, parent_transform)
             IN  [out |-> IF pts # <<>> THEN << Polyline(pts) >> ELSE <<>>,
                  err |-> sp.err]

\* the leaf branches, by e.dxftype()
LeafKinds == {"LINE", "LWPOLYLINE", "POLYLINE", "CIRCLE", "ARC", "ELLIPSE", "SPLINE"}

---------------------------------------------------------------------------
(* The documents the model reads.  An entity is a record of the attributes *)
(* process_entity reads from it; xscale, yscale and rotation hold <<v>> or *)
(* <<>> (attribute absent: getattr's default applies).                     *)

LineOk == [kind |-> "LINE", start |-> <<One, 2 * One>>, end |-> <<3 * One, 0>>]
LineBad == [kind |-> "LINE", start |-> <<One, 2 * One>>, end |-> <<>>]
LwOk == [kind |-> "LWPOLYLINE",
         points |-> << <<0, 0, 0, 0, 0>>, <<One, One, 0, 0, One>> >>]
LwEmpty == [kind |-> "LWPOLYLINE", points |-> <<>>]
LwBad == [kind |-> "LWPOLYLINE", points |-> << <<0, 0, 0, 0, 0>>, <<One>> >>]
PolyOk == [kind |-> "POLYLINE", vertices |-> << <<0, One>>, <<2 * One, One>> >>]
PolyEmpty == [kind |-> "POLYLINE", vertices |-> <<>>]
PolyBad == [kind |-> "POLYLINE", vertices |-> << <<0, One>>, <<One>> >>]
CircleOk == [kind |-> "CIRCLE", center |-> <<One, 2 * One>>, radius |-> 2 * One]
CircleBad == [kind |-> "CIRCLE", center |-> <<>>, radius |-> 2 * One]
ArcOk == [kind |-> "ARC", center |-> <<-One, One>>, radius |-> One,
          start_angle |-> 300, end_angle |-> 60]
ArcBad == [kind |-> "ARC", center |-> <<One>>, radius |-> One,
           start_angle |-> 0, end_angle |-> 90]
EllipseOk == [kind |-> "ELLIPSE", center |-> <<0, One>>,
              major_axis |-> <<3 * One, 4 * One>>, ratio |-> One \div 2]
EllipseBad == [kind |-> "ELLIPSE", center |-> <<0, One>>,
               major_axis |-> <<>>, ratio |-> One \div 2]
SplineFit == [kind |-> "SPLINE", fit_points |-> << <<0, 0, 0>>, <<One, 2 * One, 0>> >>,
              control_points |-> <<>>]
SplineControl == [kind |-> "SPLINE", fit_points |-> <<>>,
                  control_points |-> << <<0, 0, 0>>, <<One, One, 0>>, <<2 * One, 0, 0>> >>]
SplineNone == [kind |-> "SPLINE", fit_points |-> <<>>, control_points |-> <<>>]
SplineBad == [kind |-> "SPLINE", fit_points |-> << <<0, 0, 0>>, <<One>> >>,
              control_points |-> <<>>]
InsertA == [kind |-> "INSERT", name |-> "A", insert |-> <<10 * One, 20 * One>>,
            xscale |-> <<2 * One>>, yscale |-> <<One>>, rotation |-> <<90>>]
InsertA2 == [kind |-> "INSERT", name |-> "A", insert |-> <<-3 * One, One>>,
             xscale |-> <<One>>, yscale |-> <<3 * One>>, rotation |-> <<180>>]
InsertB == [kind |-> "INSERT", name |-> "B", insert |-> <<-5 * One, One>>,
            xscale |-> <<>>, yscale |-> <<>>, rotation |-> <<>>]
InsertMissing == [kind |-> "INSERT", name |-> "NOPE", insert |-> <<One, One>>,
                  xscale |-> <<One>>, yscale |-> <<One>>, rotation |-> <<0>>]
InsertBad == [kind |-> "INSERT", name |-> "A", insert |-> <<>>,
              xscale |-> <<One>>, yscale |-> <<One>>, rotation |-> <<0>>]
Text == [kind |-> "TEXT"]

Pool == {LineOk, LineBad, LwOk, LwEmpty, LwBad, PolyOk, PolyEmpty, PolyBad,
         CircleOk, CircleBad, ArcOk, ArcBad, EllipseOk, EllipseBad,
         SplineFit, SplineControl, SplineNone, SplineBad,
         InsertA, InsertA2, InsertB, InsertMissing, InsertBad, Text}

\* the entities that fill a container around the one entity drawn from Pool
Siblings == {LineOk, InsertB}

\* the sequences over Pool of length <= n, at most one entity not a sibling
Containers(n) ==
    UNION {{s \in [1..k -> Pool] :
                Cardinality({i \in 1..k : s[i] \notin Siblings}) <= 1} : k \in 0..n}

BlockNames == {"A", "B"}

\* the name of doc.modelspace()
ModelSpace == "*Model_Space"

\* a block table without a reference cycle: A holds an instance of B
NestedTable == [A |-> <<CircleOk, InsertB>>, B |-> <<ArcOk>>]

\* block B referring back to A: a reference cycle once A holds an instance of B
CyclicB == <<LineOk, InsertA>>

\* modelspaces over the fixed table NestedTable, and generated bodies of block A
\* under one instance (B a leaf block) or followed by a sibling (B referring to A)
Docs ==
    {[ms |-> c, blocks |-> NestedTable] : c \in Containers(MaxLen)}
    \cup {[ms |-> <<InsertA>>, blocks |-> [A |-> c, B |-> <<ArcOk>>]] :
            c \in Containers(MaxLen)}
    \cup {[ms |-> <<InsertA2, LineOk>>, blocks |-> [A |-> c, B |-> CyclicB]] :
            c \in Containers(MaxLen)}

---------------------------------------------------------------------------
(* State of the traversal *)

\* the entities of a container: doc.modelspace(), or the block of that name
Entities(cont) == IF cont = ModelSpace THEN doc.ms ELSE doc.blocks[cont]

\* the innermost active iteration ("for e in modelspace", "for be in blk")
Top == stack[Len(stack)]

\* the loop of the innermost iteration has an entity left
HasEntity == pc = "run" /\ Top.idx <= Len(Entities(Top.cont))

\* the entity process_entity is called with
Cur == Entities(Top.cont)[Top.idx]

\* the innermost loop moves to its next entity
Advance(st) == [st EXCEPT ![Len(st)].idx = @ + 1]

\* Variant of Emit: the records are inserted at the front of the list
EmitAtFront(o, recs) == recs \o o

\* out.append(...), for each record of recs in order
Emit(o, recs) == o \o recs

\* "if verbose: print(Processing entity: t)"
Trace(t) == IF verbose THEN << <<"Processing entity", t>> >> ELSE <<>>

\* getattr(e.dxf, name, default)
GetAttr(field, default) == IF field = <<>> THEN default ELSE field[1]

\* Variant of NestedTransform: the placement is composed with the caller's transform
NestedTransformComposed(e, parent_transform) ==
    LET own == << <<e.insert[1], e.insert[2]>>, GetAttr(e.xscale, One),
                  GetAttr(e.yscale, One), GetAttr(e.rotation, 0) >>
    IN  IF parent_transform = None THEN own
        ELSE << ApplyTransform(own[1], parent_transform),
                Mul(own[2], parent_transform[2]), Mul(own[3], parent_transform[3]),
                own[4] + parent_transform[4] >>

\* parent_transform=(insert_pt, sx, sy, rotation) of the recursive call
NestedTransform(e, parent_transform) ==
    << <<e.insert[1], e.insert[2]>>, GetAttr(e.xscale, One), GetAttr(e.yscale, One),
       GetAttr(e.rotation, 0) >>

\* doc.blocks.get(name) is not None
BlockFound(name) == name \in DOMAIN doc.blocks

\* the state before main() has parsed its arguments and read the input
Init ==
    /\ doc = [ms |-> <<>>, blocks |-> <<>>]
    /\ approx_segs = 0
    /\ explode_blocks = FALSE
    /\ verbose = FALSE
    /\ out = <<>>
    /\ err = <<>>
    /\ stack = <<>>
    /\ pc = "start"
    /\ fn = "none"
    /\ args = <<>>
    /\ ret = <<>>

\* main: parse_args, recover.readfile, doc.modelspace(), out = []
ReadFile ==
    /\ pc = "start"
    /\ doc' \in Docs
    /\ approx_segs' \in 0..MaxSegs
    /\ explode_blocks' \in BOOLEAN
    /\ verbose' \in BOOLEAN
    /\ stack' = << [cont |-> ModelSpace, idx |-> 1, tf |-> None] >>
    /\ pc' = "run"
    /\ UNCHANGED <<out, err, fn, args, ret>>

\* main: the input is missing or ezdxf cannot read it: sys.exit(3), (4) or (5)
ReadFails ==
    /\ pc = "start"
    /\ err' = << <<"Fatal", "input not read">> >>
    /\ pc' = "exit"
    /\ UNCHANGED <<doc, approx_segs, explode_blocks, verbose, out, stack, fn, args, ret>>

---------------------------------------------------------------------------
(* process_entity, one action per branch *)

\* a branch that recurses nowhere: append its records, print its lines, return
Leaf(kind, res) ==
    /\ HasEntity
    /\ Cur.kind = kind
    /\ out' = Emit(out, res.out)
    /\ err' = err \o Trace(kind) \o res.err
    /\ stack' = Advance(stack)
    /\ UNCHANGED <<doc, approx_segs, explode_blocks, verbose, pc, fn, args, ret>>

ProcessLine == Leaf("LINE", LineBranch(Cur, Top.tf))

ProcessLwPolyline == Leaf("LWPOLYLINE", LwPolylineBranch(Cur, Top.tf))

ProcessPolyline == Leaf("POLYLINE", PolylineBranch(Cur, Top.tf))

ProcessCircle == Leaf("CIRCLE", CircleBranch(Cur, Top.tf, approx_segs))

ProcessArc == Leaf("ARC", ArcBranch(Cur, Top.tf, approx_segs))

ProcessEllipse == Leaf("ELLIPSE", EllipseBranch(Cur, Top.tf, approx_segs))

ProcessSpline == Leaf("SPLINE", SplineBranch(Cur, Top.tf, approx_segs))

\* Variant of InsertLines: a missing block is passed over without a warning
InsertLinesSilent(e) ==
    IF Malformed(e.insert)
    THEN << <<"Warning", "INSERT expansion failed">> >>
    ELSE IF verbose THEN << <<"Expanding INSERT", e.name>> >> ELSE <<>>

\* the lines the INSERT branch prints before it iterates the block
InsertLines(e) ==
    IF Malformed(e.insert)
    THEN << <<"Warning", "INSERT expansion failed">> >>
    ELSE (IF verbose THEN << <<"Expanding INSERT", e.name>> >> ELSE <<>>)
         \o (IF BlockFound(e.name) THEN <<>> ELSE << <<"Warning", "Block not found">> >>)

\* the INSERT branch enters "for be in blk"
Expands(e) == ~Malformed(e.insert) /\ BlockFound(e.name)

\* Variant of ExpandInsert: a block already under expansion is not expanded again
ExpandInsertOnce ==
    /\ HasEntity
    /\ Cur.kind = "INSERT"
    /\ explode_blocks
    /\ Expands(Cur) => Len(stack) < MaxDepth
    /\ err' = err \o Trace("INSERT") \o InsertLines(Cur)
    /\ stack' = IF Expands(Cur) /\ \A k \in 1..Len(stack) : stack[k].cont # Cur.name
                THEN Append(stack, [cont |-> Cur.name, idx |-> 1,
                                    tf |-> NestedTransform(Cur, Top.tf)])
                ELSE Advance(stack)
    /\ UNCHANGED <<doc, approx_segs, explode_blocks, verbose, out, pc, fn, args, ret>>

\* elif t == "INSERT" and explode_blocks: up to the first recursive call
ExpandInsert ==
    /\ HasEntity
    /\ Cur.kind = "INSERT"
    /\ explode_blocks
    /\ Expands(Cur) => Len(stack) < MaxDepth
    /\ err' = err \o Trace("INSERT") \o InsertLines(Cur)
    /\ stack' = IF Expands(Cur)
                THEN Append(stack, [cont |-> Cur.name, idx |-> 1,
                                    tf |-> NestedTransform(Cur, Top.tf)])
                ELSE Advance(stack)
    /\ UNCHANGED <<doc, approx_segs, explode_blocks, verbose, out, pc, fn, args, ret>>

\* "for be in blk" is exhausted: the INSERT's call returns to its caller's loop
EndBlock ==
    /\ pc = "run"
    /\ Len(stack) > 1
    /\ Top.idx > Len(Entities(Top.cont))
    /\ stack' = Advance(SubSeq(stack, 1, Len(stack) - 1))
    /\ UNCHANGED <<doc, approx_segs, explode_blocks, verbose, out, err, pc, fn, args, ret>>

\* Variant of IgnoreEntity: the ignored type is reported whatever --verbose says
IgnoreEntityLoud ==
    /\ HasEntity
    /\ Cur.kind \notin LeafKinds
    /\ ~(Cur.kind = "INSERT" /\ explode_blocks)
    /\ err' = err \o Trace(Cur.kind) \o << <<"Ignored entity type", Cur.kind>> >>
    /\ stack' = Advance(stack)
    /\ UNCHANGED <<doc, approx_segs, explode_blocks, verbose, out, pc, fn, args, ret>>

\* else: unsupported types, and INSERT without --explode-inserts
IgnoreEntity ==
    /\ HasEntity
    /\ Cur.kind \notin LeafKinds
    /\ ~(Cur.kind = "INSERT" /\ explode_blocks)
    /\ err' = err \o Trace(Cur.kind)
                  \o (IF verbose THEN << <<"Ignored entity type", Cur.kind>> >> ELSE <<>>)
    /\ stack' = Advance(stack)
    /\ UNCHANGED <<doc, approx_segs, explode_blocks, verbose, out, pc, fn, args, ret>>

\* main: "for e in modelspace" is exhausted, the JSON is written
WriteOutput ==
    /\ pc = "run"
    /\ Len(stack) = 1
    /\ Top.idx > Len(Entities(Top.cont))
    /\ pc' = "done"
    /\ UNCHANGED <<doc, approx_segs, explode_blocks, verbose, out, err, stack, fn, args, ret>>

Next ==
    \/ ReadFile
    \/ ReadFails
    \/ ProcessLine
    \/ ProcessLwPolyline
    \/ ProcessPolyline
    \/ ProcessCircle
    \/ ProcessArc
    \/ ProcessEllipse
    \/ ProcessSpline
    \/ ExpandInsert
    \/ EndBlock
    \/ IgnoreEntity
    \/ WriteOutput

Spec == Init /\ [][Next]_vars

\* the steps of main's loop and of the calls it makes
Traverse ==
    \/ ProcessLine
    \/ ProcessLwPolyline
    \/ ProcessPolyline
    \/ ProcessCircle
    \/ ProcessArc
    \/ ProcessEllipse
    \/ ProcessSpline
    \/ ExpandInsert
    \/ EndBlock
    \/ IgnoreEntity
    \/ WriteOutput

\* once the input is read the interpreter runs the loop on: no step waits on anything
FairSpec == Spec /\ WF_vars(Traverse)

---------------------------------------------------------------------------
(* sample_circle and sample_arc called directly, on arguments drawn from   *)
(* bounded sets: the functions are total over ints, whatever main passes.  *)

\* start_deg, end_deg: multiples of 60 over MaxTurns turns, and the pair 350, 10
Angles == {60 * k : k \in 0..(6 * MaxTurns)} \cup {10, 350}

SamplerArgs ==
    [cx : {0, One}, cy : {0, One}, r : {One, 2 * One},
     start_deg : Angles, end_deg : Angles, segments : 0..MaxSampleSegs]

SamplerInit ==
    /\ doc = [ms |-> <<>>, blocks |-> NestedTable]
    /\ approx_segs = 0
    /\ explode_blocks = FALSE
    /\ verbose = FALSE
    /\ out = <<>>
    /\ err = <<>>
    /\ stack = <<>>
    /\ pc = "call"
    /\ fn \in {"sample_circle", "sample_arc"}
    /\ args \in SamplerArgs
    /\ fn = "sample_circle" => args.start_deg = 0 /\ args.end_deg = 0
    /\ ret = <<>>

CallSampleCircle ==
    /\ pc = "call"
    /\ fn = "sample_circle"
    /\ ret = <<>>
    /\ ret' = [raised |-> FALSE,
               pts |-> sample_circle(args.cx, args.cy, args.r, args.segments)]
    /\ UNCHANGED <<travVars, fn, args>>

CallSampleArc ==
    /\ pc = "call"
    /\ fn = "sample_arc"
    /\ ret = <<>>
    /\ ret' = IF sample_arc_raises(args.segments)
              THEN [raised |-> TRUE, pts |-> <<>>]
              ELSE [raised |-> FALSE,
                    pts |-> sample_arc(args.cx, args.cy, args.r, args.start_deg,
                                       args.end_deg, args.segments)]
    /\ UNCHANGED <<travVars, fn, args>>

SamplerNext ==
    \/ CallSampleCircle
    \/ CallSampleArc

SamplerSpec == SamplerInit /\ [][SamplerNext]_vars

---------------------------------------------------------------------------
(* Properties of the samplers *)

\* the point of the circle of centre (cx, cy) and radius r at angle deg
PointAt(cx, cy, r, deg) == <<cx + Mul(r, Cos(deg)), cy + Mul(r, Sin(deg))>>

CircleReturned == fn = "sample_circle" /\ ret # <<>>

\* sample_circle for segments >= 1: segments + 1 points, closed, point i at 2*pi*i/segments
CircleClosedLoop ==
    (CircleReturned /\ args.segments >= 1) =>
        /\ ~ret.raised
        /\ Len(ret.pts) = args.segments + 1
        /\ ret.pts[args.segments + 1] = ret.pts[1]
        /\ \A i \in 0..(args.segments - 1) :
              ret.pts[i + 1] = PointAt(args.cx, args.cy, args.r,
                                       (360 * i) \div args.segments)

\* C8 as stated: sample_circle returns segments + 1 points, the last identical to
\* the first, point i at angle 2*pi*i/segments, and for segments = 0 a single point.
C8_AsStated ==
    /\ CircleClosedLoop
    /\ (CircleReturned /\ args.segments = 0) => Len(ret.pts) = 1

\* C8 (amended): sample_circle returns, for segments >= 1, segments + 1 points, the
\* last identical to the first, point i at angle 2*pi*i/segments; for segments = 0
\* it returns the empty list.
C8_CircleSampling ==
    /\ CircleClosedLoop
    /\ (CircleReturned /\ args.segments = 0) => (~ret.raised /\ ret.pts = <<>>)

C8_Witness ==
    /\ CircleReturned
    /\ args.segments = MaxSampleSegs
    /\ Len(ret.pts) = MaxSampleSegs + 1
    /\ args.r = 2 * One

ArcReturned == fn = "sample_arc" /\ ret # <<>>

\* the end angle sample_arc sweeps to
AdjustedEnd == IF args.end_deg < args.start_deg THEN args.end_deg + 360 ELSE args.end_deg

Sweep == AdjustedEnd - args.start_deg

\* sample_arc for segments >= 1: segments + 1 points, point i at start + sweep*i/segments
ArcPoints ==
    (ArcReturned /\ args.segments >= 1) =>
        /\ ~ret.raised
        /\ Len(ret.pts) = args.segments + 1
        /\ \A i \in 0..args.segments :
              ret.pts[i + 1] = PointAt(args.cx, args.cy, args.r,
                                       args.start_deg + (Sweep * i) \div args.segments)
        /\ ret.pts[1] = PointAt(args.cx, args.cy, args.r, args.start_deg)
        /\ ret.pts[args.segments + 1] = PointAt(args.cx, args.cy, args.r, AdjustedEnd)
        /\ (args.start_deg < 360 /\ args.end_deg < 360) => Sweep < 360

\* C10 as stated: segments + 1 points; the end angle is end + 360 when end < start;
\* the sweep is always >= 0 and, for angles in [0, 360), < 360; point i lies at
\* start + sweep*i/segments.
C10_AsStated ==
    /\ ArcPoints
    /\ (ArcReturned /\ args.segments >= 1) => Sweep >= 0

\* C10 (amended): as stated, but the sweep is >= 0 only when start - end <= 360
\* (so for all angles in [0, 360)); 360 is added once, so a start more than a full
\* turn above the end leaves a negative sweep.
C10_ArcSampling ==
    /\ ArcPoints
    /\ (ArcReturned /\ args.segments >= 1) =>
          /\ (args.start_deg - args.end_deg <= 360) => Sweep >= 0
          /\ (args.start_deg - args.end_deg > 360) => Sweep < 0

C10_Witness ==
    /\ ArcReturned
    /\ args.start_deg = 350
    /\ args.end_deg = 10
    /\ args.segments = 2
    /\ Sweep = 20
    /\ ret.pts[2] = PointAt(args.cx, args.cy, args.r, 360)

---------------------------------------------------------------------------
(* Properties of the traversal: what a run should produce, written as a    *)
(* function of the document                                                *)

\* the placement an instance carries: its own insertion point, scale and rotation
OwnPlacement(e) ==
    << <<e.insert[1], e.insert[2]>>,
       IF e.xscale = <<>> THEN One ELSE e.xscale[1],
       IF e.yscale = <<>> THEN One ELSE e.yscale[1],
       IF e.rotation = <<>> THEN 0 ELSE e.rotation[1] >>

\* what the branch of a leaf entity appends and prints under transform tf
LeafResult(e, tf) ==
    CASE e.kind = "LINE" -> LineBranch(e, tf)
      [] e.kind = "LWPOLYLINE" -> LwPolylineBranch(e, tf)
      [] e.kind = "POLYLINE" -> PolylineBranch(e, tf)
      [] e.kind = "CIRCLE" -> CircleBranch(e, tf, approx_segs)
      [] e.kind = "ARC" -> ArcBranch(e, tf, approx_segs)
      [] e.kind = "ELLIPSE" -> EllipseBranch(e, tf, approx_segs)
      [] e.kind = "SPLINE" -> SplineBranch(e, tf, approx_segs)

\* the instance is expanded: the option is on, its fields read, its block exists
IsExpanded(e) ==
    /\ e.kind = "INSERT"
    /\ explode_blocks
    /\ ~Malformed(e.insert)
    /\ e.name \in DOMAIN doc.blocks

\* the records of a sequence of entities, depth first and in order, an expanded
\* instance contributing the records of its block under its own placement
RECURSIVE FlatRecs(_, _, _)
FlatRecs(blocks, ents, tf) ==
    IF ents = <<>> THEN <<>>
    ELSE LET e == Head(ents)
             first == IF e.kind \in LeafKinds THEN LeafResult(e, tf).out
                      ELSE IF IsExpanded(e)
                      THEN FlatRecs(blocks, blocks[e.name], OwnPlacement(e))
                      ELSE <<>>
         IN  first \o FlatRecs(blocks, Tail(ents), tf)

\* the entities the k-th active iteration has finished
Finished(k) == SubSeq(Entities(stack[k].cont), 1, stack[k].idx - 1)

\* the records of everything finished so far, outermost iteration first
RECURSIVE RecsUpTo(_)
RecsUpTo(k) ==
    IF k = 0 THEN <<>>
    ELSE RecsUpTo(k - 1) \o FlatRecs(doc.blocks, Finished(k), stack[k].tf)

IsPrefix(s, t) == Len(s) <= Len(t) /\ SubSeq(t, 1, Len(s)) = s

\* C7: the output is the depth-first, in-order concatenation of the per-entity
\* results (at every moment, of the entities finished so far; at the end, of the
\* whole modelspace, a function of document and options alone), and a step never
\* removes, reorders or modifies a record already appended.
C7_TraversalOrder ==
    /\ [](pc \in {"run", "done"} => out = RecsUpTo(Len(stack)))
    /\ [](pc = "done" => out = FlatRecs(doc.blocks, doc.ms, None))
    /\ [][IsPrefix(out, out')]_vars

C7_Witness ==
    /\ pc = "done"
    /\ explode_blocks
    /\ Len(doc.ms) = 2
    /\ doc.ms[1] = InsertA
    /\ doc.ms[2] = LineOk
    /\ doc.blocks = NestedTable
    /\ approx_segs = 1
    /\ Len(out) = 5
    /\ out[2].type = "circle"
    /\ out[4].type = "arc"
    /\ out[5] = Polyline(<< <<One, 2 * One>>, <<3 * One, 0>> >>)

---------------------------------------------------------------------------
(* Properties of single calls of process_entity *)

\* the records the step appends to out
Appended == SubSeq(out', Len(out) + 1, Len(out'))

\* the lines the step prints
Printed == SubSeq(err', Len(err) + 1, Len(err'))

\* the curve of a CIRCLE or ARC entity sampled in the entity's own coordinates
LocalSample(e) ==
    IF e.kind = "CIRCLE"
    THEN sample_circle(e.center[1], e.center[2], e.radius, approx_segs)
    ELSE sample_arc(e.center[1], e.center[2], e.radius, e.start_angle, e.end_angle,
                    approx_segs)

\* the exact record of a CIRCLE or ARC entity, from the fields as stored
ExactRecord(e) ==
    IF e.kind = "CIRCLE"
    THEN [type |-> "circle", cx |-> e.center[1], cy |-> e.center[2], r |-> e.radius]
    ELSE [type |-> "arc", cx |-> e.center[1], cy |-> e.center[2], r |-> e.radius,
          start |-> e.start_angle, end |-> e.end_angle]

\* the branch of a CIRCLE or ARC entity raises before it appends anything
CurveRaises(e) == Malformed(e.center) \/ (e.kind = "ARC" /\ approx_segs = 0)

\* C4: a CIRCLE or ARC entity, at any depth and under any transform, appends a
\* polyline and then its exact record; the exact record carries the entity's own
\* centre, radius and angles as stored; the polyline is the entity's local sampling,
\* each point passed through the active transform when there is one.
C4_ExactRecordIsLocal ==
    [][(HasEntity /\ Cur.kind \in {"CIRCLE", "ARC"}) =>
          IF CurveRaises(Cur) THEN Appended = <<>>
          ELSE /\ Len(Appended) = 2
               /\ Appended[2] = ExactRecord(Cur)
               /\ Appended[1].type = "polyline"
               /\ Len(Appended[1].points) = Len(LocalSample(Cur))
               /\ \A i \in 1..Len(LocalSample(Cur)) :
                     Appended[1].points[i] =
                        IF Top.tf = None THEN LocalSample(Cur)[i]
                        ELSE transform_point(LocalSample(Cur)[i], Top.tf[1], Top.tf[2],
                                             Top.tf[3], Top.tf[4])]_vars

C4_Witness ==
    /\ pc = "run"
    /\ Len(stack) = 3
    /\ stack[2].cont = "A"
    /\ stack[2].tf = OwnPlacement(InsertA)
    /\ doc.blocks["A"][1] = CircleOk
    /\ stack[3].idx = 2
    /\ doc.blocks[stack[3].cont][1] = ArcOk
    /\ approx_segs = 2
    /\ Len(out) = 4
    /\ out[2] = [type |-> "circle", cx |-> One, cy |-> 2 * One, r |-> 2 * One]
    /\ out[4] = [type |-> "arc", cx |-> -One, cy |-> One, r |-> One,
                 start |-> 300, end |-> 60]
    /\ out[1].points[1] # <<3 * One, 2 * One>>

\* the INSERT entity whose expansion is the k-th active iteration (k >= 2)
Expanding(k) == Entities(stack[k - 1].cont)[stack[k - 1].idx]

\* C5: the transform of an expansion is the instance's own placement, whatever
\* transform was active where the instance was met, and the entities of its block
\* yield the records they yield under that placement alone.
C5_TransformReplaced ==
    /\ [](\A k \in 2..Len(stack) : stack[k].tf = OwnPlacement(Expanding(k)))
    /\ [][(HasEntity /\ Len(stack) >= 2 /\ Cur.kind \in LeafKinds) =>
             Appended = LeafResult(Cur, OwnPlacement(Expanding(Len(stack)))).out]_vars

C5_Witness ==
    /\ pc = "run"
    /\ Len(stack) = 3
    /\ stack[2].tf # None
    /\ stack[3].tf # stack[2].tf
    /\ stack[3].tf = OwnPlacement(InsertB)
    /\ stack[3].idx = 2
    /\ doc.blocks[stack[3].cont][1] = ArcOk
    /\ approx_segs >= 1
    /\ out[Len(out)].type = "arc"

\* the entity is a polyline of either kind without vertices
EmptyPolyline(e) ==
    \/ e.kind = "LWPOLYLINE" /\ e.points = <<>>
    \/ e.kind = "POLYLINE" /\ e.vertices = <<>>

\* C6 as stated: a polyline entity of either kind with an empty vertex list yields
\* no record, and no polyline entity yields a polyline record without points.
C6_AsStated ==
    [][(HasEntity /\ Cur.kind \in {"LWPOLYLINE", "POLYLINE"}) =>
          /\ EmptyPolyline(Cur) => Appended = <<>>
          /\ \A i \in 1..Len(Appended) : Appended[i].points # <<>>]_vars

\* what holds of the code: the vertex-chain POLYLINE alone drops an empty list
C6_VertexChainOnly ==
    [][(HasEntity /\ Cur.kind = "POLYLINE" /\ EmptyPolyline(Cur)) => Appended = <<>>]_vars

---------------------------------------------------------------------------
(* Failures inside one entity *)

\* reading or converting a required field of e raises in e's branch; placed tells
\* whether a transform is active (a SPLINE's points are indexed only then)
FieldFails(e, placed) ==
    CASE e.kind = "LINE" -> Malformed(e.start) \/ Malformed(e.end)
      [] e.kind = "LWPOLYLINE" -> \E i \in 1..Len(e.points) : Malformed(e.points[i])
      [] e.kind = "POLYLINE" -> \E i \in 1..Len(e.vertices) : Malformed(e.vertices[i])
      [] e.kind \in {"CIRCLE", "ARC"} -> Malformed(e.center)
      [] e.kind = "ELLIPSE" -> Malformed(e.center) \/ Malformed(e.major_axis)
      [] e.kind = "SPLINE" -> placed /\ \E i \in 1..Len(e.fit_points) :
                                            Malformed(e.fit_points[i])
      [] e.kind = "INSERT" -> explode_blocks /\ Malformed(e.insert)
      [] OTHER -> FALSE

\* the lines of a sequence of printed lines that are warnings
Warnings(lines) == SelectSeq(lines, LAMBDA l : l[1] = "Warning")

\* a sequence of entities without those that satisfy Drop
Without(ents, Drop(_)) == SelectSeq(ents, LAMBDA e : ~Drop(e))

\* the block table with the entities whose fields fail removed from every block
SoundBlocks ==
    [n \in DOMAIN doc.blocks |-> Without(doc.blocks[n], LAMBDA e : FieldFails(e, TRUE))]

\* the records of everything finished so far in the document with the failing
\* entities absent
RECURSIVE SoundRecsUpTo(_)
SoundRecsUpTo(k) ==
    IF k = 0 THEN <<>>
    ELSE SoundRecsUpTo(k - 1)
         \o FlatRecs(SoundBlocks,
                     Without(Finished(k), LAMBDA e : FieldFails(e, stack[k].tf # None)),
                     stack[k].tf)

\* a step of process_entity on an entity whose required field fails: nothing is
\* appended, one warning is printed, the loop of the same container goes on
FailureIsolated ==
    /\ Appended = <<>>
    /\ Len(Warnings(Printed)) = 1
    /\ stack' = Advance(stack)
    /\ pc' = "run"

\* C1 as stated: an entity whose required field fails appends no record and emits
\* exactly one diagnostic; its later siblings are processed and yield what they
\* would yield with it absent.
C1_AsStated ==
    /\ [][(HasEntity /\ FieldFails(Cur, Top.tf # None)) =>
             (FailureIsolated /\ Len(Printed) = 1)]_vars
    /\ [](pc \in {"run", "done"} => out = SoundRecsUpTo(Len(stack)))

\* C1 (amended): an entity whose required field fails appends no record and emits
\* exactly one warning, preceded under --verbose by the "Processing entity" trace
\* line (two lines in all); its later siblings are processed and the output is the
\* one of the document with the failing entities absent.
C1_FailureIsolation ==
    /\ [][(HasEntity /\ FieldFails(Cur, Top.tf # None)) =>
             /\ FailureIsolated
             /\ Len(Printed) = IF verbose THEN 2 ELSE 1
             /\ verbose => Printed[1] = <<"Processing entity", Cur.kind>>]_vars
    /\ [](pc \in {"run", "done"} => out = SoundRecsUpTo(Len(stack)))

C1_Witness ==
    /\ pc = "run"
    /\ explode_blocks
    /\ verbose
    /\ Len(stack) = 2
    /\ stack[2].cont = "A"
    /\ stack[2].idx = 3
    /\ doc.blocks["A"] = <<LineBad, LineOk>>
    /\ Len(out) = 1
    /\ Len(Warnings(err)) = 1
    /\ Len(err) = 5

\* the instance is expanded but names no block of the document
MissingBlock(e) ==
    /\ e.kind = "INSERT"
    /\ explode_blocks
    /\ ~Malformed(e.insert)
    /\ e.name \notin DOMAIN doc.blocks

\* the records of everything finished so far in the document with the instances
\* of missing blocks absent
RECURSIVE ResolvedRecsUpTo(_)
ResolvedRecsUpTo(k) ==
    IF k = 0 THEN <<>>
    ELSE ResolvedRecsUpTo(k - 1)
         \o FlatRecs([n \in DOMAIN doc.blocks |-> Without(doc.blocks[n], MissingBlock)],
                     Without(Finished(k), MissingBlock), stack[k].tf)

\* a step on an instance of a missing block: nothing appended, one warning (block
\* not found), the run goes on with the next entity
MissingBlockSkipped ==
    /\ Appended = <<>>
    /\ Warnings(Printed) = << <<"Warning", "Block not found">> >>
    /\ stack' = Advance(stack)
    /\ pc' = "run"

\* C2 as stated: expanding an instance of a block that is not in the block table
\* appends no record, emits exactly one diagnostic (block not found), is not fatal,
\* and leaves the records of every other entity as if the instance were absent.
C2_AsStated ==
    /\ [][(HasEntity /\ MissingBlock(Cur)) =>
             (MissingBlockSkipped /\ Len(Printed) = 1)]_vars
    /\ [](pc \in {"run", "done"} => out = ResolvedRecsUpTo(Len(stack)))

\* C2 (amended): expanding an instance of a block that is not in the block table
\* appends no record, emits exactly one warning (block not found), preceded under
\* --verbose by the two trace lines "Processing entity" and "Expanding INSERT"
\* (three lines in all), is not fatal, and leaves the records of every other entity
\* as if the instance were absent.
C2_MissingBlock ==
    /\ [][(HasEntity /\ MissingBlock(Cur)) =>
             /\ MissingBlockSkipped
             /\ Len(Printed) = IF verbose THEN 3 ELSE 1
             /\ verbose => /\ Printed[1] = <<"Processing entity", "INSERT">>
                           /\ Printed[2] = <<"Expanding INSERT", Cur.name>>]_vars
    /\ [](pc \in {"run", "done"} => out = ResolvedRecsUpTo(Len(stack)))

C2_Witness ==
    /\ pc = "done"
    /\ explode_blocks
    /\ ~verbose
    /\ doc.ms = <<InsertMissing, LineOk>>
    /\ err = << <<"Warning", "Block not found">> >>
    /\ out = << Polyline(<< <<One, 2 * One>>, <<3 * One, 0>> >>) >>

\* C3 as stated: with explodeInstances false an INSERT entity appends no record and
\* emits no diagnostic, whatever the other options, verbose included.
C3_AsStated ==
    [][(HasEntity /\ Cur.kind = "INSERT" /\ ~explode_blocks) =>
          (Appended = <<>> /\ Printed = <<>>)]_vars

\* C3 (amended): with explodeInstances false an INSERT entity appends no record and
\* is not expanded; it emits no warning; it prints nothing when verbose is false,
\* and under --verbose exactly the two trace lines "Processing entity: INSERT" and
\* "Ignored entity type: INSERT".
C3_InsertSkipped ==
    [][(HasEntity /\ Cur.kind = "INSERT" /\ ~explode_blocks) =>
          /\ Appended = <<>>
          /\ stack' = Advance(stack)
          /\ Printed = IF verbose
                       THEN << <<"Processing entity", "INSERT">>,
                               <<"Ignored entity type", "INSERT">> >>
                       ELSE <<>>]_vars

C3_Witness ==
    /\ ~explode_blocks
    /\ verbose
    /\ doc.ms = <<InsertA, LineOk>>
    /\ Len(stack) = 1
    /\ stack[1].idx = 2
    /\ out = <<>>
    /\ err = << <<"Processing entity", "INSERT">>, <<"Ignored entity type", "INSERT">> >>

---------------------------------------------------------------------------
(* Depth and termination of the expansion *)

\* the blocks whose expansion a container starts
Refs(cont) == {Entities(cont)[i].name :
                  i \in {j \in 1..Len(Entities(cont)) : IsExpanded(Entities(cont)[j])}}

Max(S) == CHOOSE m \in S : \A x \in S : x <= m

\* the longest chain of nested iterations from a container, cut off at fuel
RECURSIVE Height(_, _)
Height(cont, fuel) ==
    IF fuel = 0 THEN 0
    ELSE 1 + Max({0} \cup {Height(n, fuel - 1) : n \in Refs(cont)})

\* a chain from the modelspace longer than all containers together repeats a block
Cyclic == Height(ModelSpace, Cardinality(DOMAIN doc.blocks) + 2)
              = Cardinality(DOMAIN doc.blocks) + 2

\* main's loop plus the nesting depth of the block instances (acyclic documents)
NestingDepth == Height(ModelSpace, Cardinality(DOMAIN doc.blocks) + 1)

\* the calls of process_entity a sequence of entities causes (acyclic documents)
RECURSIVE Calls(_)
Calls(ents) ==
    IF ents = <<>> THEN 0
    ELSE 1 + (IF IsExpanded(Head(ents)) THEN Calls(doc.blocks[Head(ents).name]) ELSE 0)
           + Calls(Tail(ents))

\* C9: expansion recurses once per nesting level, with no depth limit and no cycle
\* detection: an expandable instance always opens a new iteration, also of a block
\* already under expansion; on a document without a reference cycle the run ends,
\* never nests deeper than the document's instances do, and has called
\* process_entity once for every entity of the modelspace and of every expanded
\* instance (counted on the trace lines of --verbose).
C9_Recursion ==
    /\ [][(HasEntity /\ IsExpanded(Cur) /\ Len(stack) < MaxDepth) =>
             /\ Len(stack') = Len(stack) + 1
             /\ SubSeq(stack', 1, Len(stack)) = stack
             /\ stack'[Len(stack')].cont = Cur.name
             /\ stack'[Len(stack')].idx = 1]_vars
    /\ []((pc = "run" /\ ~Cyclic) => Len(stack) <= NestingDepth)
    /\ []((pc = "done" /\ verbose /\ ~Cyclic) =>
             Len(SelectSeq(err, LAMBDA l : l[1] = "Processing entity")) = Calls(doc.ms))
    /\ (pc = "run" /\ ~Cyclic) ~> (pc = "done")

C9_Witness ==
    /\ pc = "run"
    /\ Cyclic
    /\ Len(stack) = 4
    /\ stack[2].cont = "A"
    /\ stack[3].cont = "A"
    /\ stack[4].cont = "A"
    /\ HasEntity
    /\ IsExpanded(Cur)

============================================================================
